---- MODULE Spec2Model ----
(***************************************************************************)
(* FeatherJet request dispatch and middleware composition                  *)
(* (internal/server/server.go).  One request at a time travels through    *)
(* the composed handler built by New: Logger -> CORS -> Security -> mux   *)
(* -> {API handler, tasks proxy, static handler}.                         *)
(*                                                                         *)
(* A request path is a sequence of segments; the path string is "/" seg1  *)
(* "/" seg2 ..., so <<"">> is "/", <<"api","tasks","">> is "/api/tasks/"   *)
(* and <<"","f">> is "//f".  Str gives the character string.              *)
(***************************************************************************)
EXTENDS Integers, Sequences, FiniteSets, TLC

\* ---------------------------------------------------------------- bounds
MaxSegs == 3

\* ------------------------------------------------------------ vocabulary
Tokens == {"api", "apix", "tasks", "..", ".", "", "f"}

Methods == {"GET", "POST", "OPTIONS", "CONNECT"}

\* every path of up to MaxSegs segments
TokenPaths == UNION {[1..n -> Tokens] : n \in 1..MaxSegs}

CacheMaxAges == {"", "3600", "1h"}

\* what else a request carries: the Host the client addressed, the query
\* string, the body and the X-Forwarded-For / X-Forwarded-Host it came with
ClientHosts == {"localhost:8081", "example.com"}
Queries == {"", "status=pending"}
Bodies == {"", "{\"title\":\"t\"}"}
PriorForwardedFor == {<<>>, <<"10.0.0.1">>}
PriorForwardedHost == {<<>>}

\* the peer address of the connection (r.RemoteAddr without the port)
ClientIP == "192.0.2.7"

\* ----------------------------------------------------------------- strings
Chars(t) ==
  CASE t = "api"    -> <<"a", "p", "i">>
    [] t = "apix"   -> <<"a", "p", "i", "x">>
    [] t = "hello"  -> <<"h", "e", "l", "l", "o">>
    [] t = "status" -> <<"s", "t", "a", "t", "u", "s">>
    [] t = "info"   -> <<"i", "n", "f", "o">>
    [] t = "tasks"  -> <<"t", "a", "s", "k", "s">>
    [] t = ".."     -> <<".", ".">>
    [] t = "."      -> <<".">>
    [] t = ""       -> <<>>
    [] t = "f"      -> <<"f">>
    [] t = "index.html" -> <<"i", "n", "d", "e", "x", ".", "h", "t", "m", "l">>
    [] t = "public" -> <<"p", "u", "b", "l", "i", "c">>

RECURSIVE Str(_)
Str(p) == IF p = <<>> THEN <<>> ELSE <<"/">> \o Chars(Head(p)) \o Str(Tail(p))

HasPrefix(s, pre) == Len(s) >= Len(pre) /\ SubSeq(s, 1, Len(pre)) = pre

\* CleanSegs keeping ".." segments instead of resolving them
RECURSIVE CleanSegs_KeepDotDot(_, _)
CleanSegs_KeepDotDot(rest, acc) ==
  IF rest = <<>> THEN acc
  ELSE LET h == Head(rest) IN
       IF h = "" \/ h = "." THEN CleanSegs_KeepDotDot(Tail(rest), acc)
       ELSE CleanSegs_KeepDotDot(Tail(rest), Append(acc, h))

\* path.Clean on a rooted path: drop empty and "." segments, let ".." remove
\* the segment before it, and never climb above "/".
RECURSIVE CleanSegs(_, _)
CleanSegs(rest, acc) ==
  IF rest = <<>> THEN acc
  ELSE LET h == Head(rest) IN
       IF h = "" \/ h = "." THEN CleanSegs(Tail(rest), acc)
       ELSE IF h = ".."
            THEN CleanSegs(Tail(rest),
                           IF acc = <<>> THEN acc ELSE SubSeq(acc, 1, Len(acc) - 1))
            ELSE CleanSegs(Tail(rest), Append(acc, h))

PathClean(p) == LET c == CleanSegs(p, <<>>) IN IF c = <<>> THEN <<"">> ELSE c

\* net/http cleanPath: path.Clean, then the trailing slash is put back.
cleanPath(p) ==
  IF p = <<>> THEN <<"">>
  ELSE LET np == PathClean(p) IN
       IF p[Len(p)] = "" /\ np # <<"">> THEN Append(np, "") ELSE np


\* ------------------------------------------------------------------ routes
\* setupRoutes: the patterns registered on the mux, in registration order.
setupRoutes ==
  << [pattern |-> <<"api", "hello">>,     handler |-> "handleHello"],
     [pattern |-> <<"api", "status">>,    handler |-> "handleStatus"],
     [pattern |-> <<"api", "info">>,      handler |-> "handleInfo"],
     [pattern |-> <<"api", "tasks", "">>, handler |-> "handleTasksProxy"],
     [pattern |-> <<"api", "tasks">>,     handler |-> "handleTasksProxy"],
     [pattern |-> <<"">>,                 handler |-> "staticHandler"] >>

RouteSet == {setupRoutes[i] : i \in DOMAIN setupRoutes}

EndsInSlash(p) == p # <<>> /\ p[Len(p)] = ""

\* match trying the prefix patterns before the exact entries
match_PrefixFirst(path) ==
  LET s     == Str(path)
      exact == {r \in RouteSet : Str(r.pattern) = s}
      pre   == {r \in RouteSet : EndsInSlash(r.pattern) /\ HasPrefix(s, Str(r.pattern))}
  IN  IF pre # {}
      THEN (CHOOSE r \in pre :
              \A q \in pre : Len(Str(q.pattern)) <= Len(Str(r.pattern))).handler
      ELSE IF exact # {} THEN (CHOOSE r \in exact : TRUE).handler
           ELSE "NotFoundHandler"

\* ServeMux.match: an exact entry wins; otherwise the longest registered
\* pattern ending in "/" that is a prefix of the path.
match(path) ==
  LET s     == Str(path)
      exact == {r \in RouteSet : Str(r.pattern) = s}
      pre   == {r \in RouteSet : EndsInSlash(r.pattern) /\ HasPrefix(s, Str(r.pattern))}
  IN  IF exact # {} THEN (CHOOSE r \in exact : TRUE).handler
      ELSE IF pre # {}
           THEN (CHOOSE r \in pre :
                   \A q \in pre : Len(Str(q.pattern)) <= Len(Str(r.pattern))).handler
           ELSE "NotFoundHandler"

\* ServeMux.shouldRedirectRLocked: path is not registered but path + "/" is.
shouldRedirect(path) ==
  /\ \A r \in RouteSet : Str(r.pattern) # Str(path)
  /\ \E r \in RouteSet : Str(r.pattern) = Str(Append(path, ""))

NoPath == <<>>

\* request paths: the token paths, every registered pattern and every
\* one-segment extension of a registered pattern
Paths ==
  TokenPaths
  \cup {r.pattern : r \in RouteSet}
  \cup {Append(r.pattern, t) : r \in RouteSet, t \in Tokens}

\* muxHandler matching every request as sent, without cleaning its path
muxHandler_NoClean(method, path) ==
  IF shouldRedirect(path)
  THEN [kind |-> "redirect", name |-> "RedirectHandler", location |-> Append(path, "")]
  ELSE [kind |-> "handler", name |-> match(path), location |-> NoPath]

\* the paths a proxy pattern can match: /api/tasks and what lies below it
ProxyPaths == {p \in Paths : p = <<"api", "tasks">> \/ (Len(p) >= 3 /\ p[1] = "api" /\ p[2] = "tasks")}

\* the requests: every method and path; only the proxy reads the other
\* attributes, so they vary on the paths a proxy pattern can match and are
\* fixed elsewhere
Requests ==
  [method : Methods, path : ProxyPaths, host : ClientHosts, query : Queries,
   body : Bodies, xff : PriorForwardedFor, xfh : PriorForwardedHost]
  \cup [method : Methods, path : Paths \ ProxyPaths, host : {"localhost:8081"},
        query : {""}, body : {""}, xff : {<<>>}, xfh : {<<>>}]

\* muxHandler with the API routes registered for GET only
muxHandler_GetOnly(method, path) ==
  LET cp == IF method = "CONNECT" THEN path ELSE cleanPath(path)
      h  == IF method \in {"GET", "CONNECT"} \/ match(path) = "staticHandler"
            THEN match(path) ELSE "NotFoundHandler"
  IN  IF shouldRedirect(cp)
      THEN [kind |-> "redirect", name |-> "RedirectHandler", location |-> Append(cp, "")]
      ELSE IF cp # path
           THEN [kind |-> "redirect", name |-> "RedirectHandler", location |-> cp]
           ELSE [kind |-> "handler", name |-> h, location |-> NoPath]

\* ServeMux.Handler: CONNECT requests are matched as sent; every other request
\* has its path cleaned and is redirected (301) when cleaning changed it.
muxHandler(method, path) ==
  IF method = "CONNECT"
  THEN IF shouldRedirect(path)
       THEN [kind |-> "redirect", name |-> "RedirectHandler", location |-> Append(path, "")]
       ELSE [kind |-> "handler", name |-> match(path), location |-> NoPath]
  ELSE LET cp == cleanPath(path) IN
       IF shouldRedirect(cp)
       THEN [kind |-> "redirect", name |-> "RedirectHandler", location |-> Append(cp, "")]
       ELSE IF cp # path
            THEN [kind |-> "redirect", name |-> "RedirectHandler", location |-> cp]
            ELSE [kind |-> "handler", name |-> match(path), location |-> NoPath]

\* -------------------------------------------------------------- middleware
\* setupMiddleware adding the CORS layer whatever the flag says
setupMiddleware_AlwaysCORS(c) ==
  (IF c.EnableRequestLogging THEN <<"Logger">> ELSE <<>>) \o <<"CORS", "Security", "mux">>

\* setupMiddleware with the CORS condition negated
setupMiddleware_CORSNegated(c) ==
  (IF c.EnableRequestLogging THEN <<"Logger">> ELSE <<>>)
  \o (IF ~c.EnableCORS THEN <<"CORS">> ELSE <<>>)
  \o <<"Security", "mux">>

\* setupMiddleware wrapping CORS first and Security around it
setupMiddleware_SecurityOuter(c) ==
  (IF c.EnableRequestLogging THEN <<"Logger">> ELSE <<>>)
  \o <<"Security">>
  \o (IF c.EnableCORS THEN <<"CORS">> ELSE <<>>)
  \o <<"mux">>

\* setupMiddleware wrapping the mux in Security twice
setupMiddleware_SecurityTwice(c) ==
  (IF c.EnableRequestLogging THEN <<"Logger">> ELSE <<>>)
  \o (IF c.EnableCORS THEN <<"CORS">> ELSE <<>>)
  \o <<"Security", "Security", "mux">>

\* setupMiddleware: the composed handler, outermost layer first.
setupMiddleware(c) ==
  (IF c.EnableRequestLogging THEN <<"Logger">> ELSE <<>>)
  \o (IF c.EnableCORS THEN <<"CORS">> ELSE <<>>)
  \o <<"Security", "mux">>

SecurityHeaders ==
  { <<"X-Content-Type-Options", <<"nosniff">> >>,
    <<"X-Frame-Options", <<"DENY">> >>,
    <<"X-XSS-Protection", <<"1; mode=block">> >> }

CORSHeaders ==
  { <<"Access-Control-Allow-Origin", <<"*">> >>,
    <<"Access-Control-Allow-Methods", <<"GET, POST, PUT, DELETE, OPTIONS">> >>,
    <<"Access-Control-Allow-Headers", <<"Content-Type, Authorization">> >> }

\* http.Header.Set / Add on a header map kept as a set of <<name, value>>.
HeaderSet(h, k, v) == {x \in h : x[1] # k} \cup {<<k, v>>}
HeaderAdd(h, k, v) == h \cup {<<k, v>>}
SetAll(h, kvs) == {x \in h : \A y \in kvs : x[1] # y[1]} \cup kvs
HeaderNames(h) == {x[1] : x \in h}


\* ----------------------------------------------------------- static files
StaticRoot == <<"public">>

NoFile == <<>>

FsKinds == {"file", "dir", "none"}

\* a body that is not a JSON object has no keys
NoValues == [k \in {} |-> ""]

\* http.Error: plain-text body, Content-Type and nosniff set, status written.
httpError(h, code) ==
  [status   |-> code,
   headers  |-> HeaderSet(HeaderSet(h, "Content-Type", <<"text/plain; charset=utf-8">>),
                          "X-Content-Type-Options", <<"nosniff">>),
   body     |-> [format |-> "text", fields |-> {}, values |-> NoValues],
   location |-> NoPath]

\* http.Dir.Open: the name is cleaned as a rooted path and joined to the root.
DirOpen(name) == StaticRoot \o CleanSegs(name, <<>>)

\* the cleaned name fileServer.ServeHTTP hands to serveFile
fileServerName(urlPath) == PathClean(urlPath)

\* http.FileServer (serveFile with redirect = true).  kind is what the
\* filesystem holds at the opened location when the handler runs.
serveFile(h, urlPath, kind) ==
  LET name == fileServerName(urlPath)
      last == urlPath[Len(urlPath)]
  IN  IF last = "index.html"
      THEN [status |-> 301, headers |-> h, body |-> [format |-> "none", fields |-> {}, values |-> NoValues],
            location |-> SubSeq(urlPath, 1, Len(urlPath) - 1) \o <<"">>, opened |-> NoFile]
      ELSE IF kind = "none"
      THEN httpError(h, 404) @@ [opened |-> DirOpen(name)]
      ELSE IF kind = "dir" /\ last # ""
      THEN [status |-> 301, headers |-> h, body |-> [format |-> "none", fields |-> {}, values |-> NoValues],
            location |-> Append(urlPath, ""), opened |-> DirOpen(name)]
      ELSE IF kind = "file" /\ last = ""
      THEN [status |-> 301, headers |-> h, body |-> [format |-> "none", fields |-> {}, values |-> NoValues],
            location |-> name, opened |-> DirOpen(name)]
      ELSE [status |-> 200,
            headers |-> HeaderSet(h, "Content-Type",
                                  IF kind = "dir" THEN <<"text/html; charset=utf-8">>
                                  ELSE <<"application/octet-stream">>),
            body |-> [format |-> kind, fields |-> {}, values |-> NoValues],
            location |-> NoPath, opened |-> DirOpen(name)]

\* IsAPIRoute comparing five characters with "/api/" instead of four with "/api"
IsAPIRoute_WithSlash(path) ==
  LET s == Str(path) IN Len(s) >= 5 /\ SubSeq(s, 1, 5) = <<"/", "a", "p", "i", "/">>

\* the check "is it an API route" in the static handler: r.URL.Path[:4] == "/api"
IsAPIRoute(path) ==
  LET s == Str(path) IN Len(s) >= 4 /\ SubSeq(s, 1, 4) = <<"/", "a", "p", "i">>

\* staticFileHandler writing max-age=3600 for every configured value
staticFileHandler_FixedMaxAge(c, h, path, kind) ==
  LET h1 == IF c.CacheMaxAge # ""
            THEN HeaderSet(h, "Cache-Control", <<"max-age=", "3600">>)
            ELSE h
  IN  IF IsAPIRoute(path)
      THEN httpError(h1, 404) @@ [opened |-> NoFile]
      ELSE serveFile(h1, path, kind)

\* the handler createStaticFileHandler returns when the directory exists
staticFileHandler(c, h, path, kind) ==
  LET h1 == IF c.CacheMaxAge # ""
            THEN HeaderSet(h, "Cache-Control", <<"max-age=", c.CacheMaxAge>>)
            ELSE h
  IN  IF IsAPIRoute(path)
      THEN httpError(h1, 404) @@ [opened |-> NoFile]
      ELSE serveFile(h1, path, kind)

\* ---------------------------------------------------------------- upstream
\* What the upstream at localhost:8080 does with a forwarded request: the
\* connection fails, or it answers with a status and its own headers.
UpstreamOutcomes ==
  {[ok |-> FALSE, status |-> 0, cors |-> FALSE]}
  \cup {[ok |-> TRUE, status |-> st, cors |-> c] : st \in {200, 404}, c \in BOOLEAN}

NoUpstream == [ok |-> FALSE, status |-> 0, cors |-> FALSE]

UpstreamHeaders(u) ==
  {<<"Content-Type", <<"application/json">> >>}
  \cup (IF u.cors THEN {<<"Access-Control-Allow-Origin", <<"*">> >>} ELSE {})

\* reverseProxy answering "not found" when the round trip fails
reverseProxy_NotFoundOnError(h, u) ==
  IF ~u.ok
  THEN httpError(h, 404)
  ELSE [status |-> u.status, headers |-> h \cup UpstreamHeaders(u),
        body |-> [format |-> "upstream", fields |-> {}, values |-> NoValues], location |-> NoPath]

\* the upstream authority handleTasksProxy parses
ProxyTarget == "localhost:8080"

\* director dropping the first path segment on the way to the upstream
director_StripPrefix(r) ==
  [sent    |-> TRUE,
   method  |-> r.method,
   urlHost |-> "localhost:8080",
   path    |-> Tail(r.path),
   query   |-> r.query,
   body    |-> r.body,
   host    |-> r.host,
   xff     |-> Append(r.xff, "192.0.2.7"),
   xfh     |-> r.xfh]

director_ToRequestHost(r) ==
  [sent    |-> TRUE,
   method  |-> r.method,
   urlHost |-> r.host,
   path    |-> r.path,
   query   |-> r.query,
   body    |-> r.body,
   host    |-> r.host,
   xff     |-> Append(r.xff, ClientIP),
   xfh     |-> r.xfh]

\* the outbound request httputil.NewSingleHostReverseProxy's director and
\* ReverseProxy.ServeHTTP build from the inbound one: scheme and URL host
\* become the target's, the target's empty path and query are joined to the
\* request's, the client address is appended to X-Forwarded-For; the Host
\* field and every other header are the inbound ones.
director(r) ==
  [sent    |-> TRUE,
   method  |-> r.method,
   urlHost |-> ProxyTarget,
   path    |-> r.path,
   query   |-> r.query,
   body    |-> r.body,
   host    |-> r.host,
   xff     |-> Append(r.xff, ClientIP),
   xfh     |-> r.xfh]

\* httputil.ReverseProxy.ServeHTTP: 502 when the round trip fails, otherwise
\* the upstream's headers are added to the response and its status relayed.
reverseProxy(h, u) ==
  IF ~u.ok
  THEN [status |-> 502, headers |-> h, body |-> [format |-> "none", fields |-> {}, values |-> NoValues],
        location |-> NoPath]
  ELSE [status |-> u.status, headers |-> h \cup UpstreamHeaders(u),
        body |-> [format |-> "upstream", fields |-> {}, values |-> NoValues], location |-> NoPath]

\* ------------------------------------------------------------------- state
\* Config: the fields the server reads.  LoadedConfigs are the Configs main
\* can hand to New (any YAML file); Configs are those among them that New
\* accepts with the port, directory and level Load sets by default.
Ports == {-1, 0, 1, 8080, 65535, 65536}
Directories == {"", "./public"}
Levels == {"debug", "info", "warn", "error", "", "INFO"}

Hosts == {"localhost", "0.0.0.0"}

\* durations are in seconds
LoadedConfigs ==
  [Host : Hosts, Port : Ports, ReadTimeout : {30}, WriteTimeout : {30}, IdleTimeout : {120},
   Directory : Directories, CacheMaxAge : CacheMaxAges,
   Level : Levels, EnableRequestLogging : BOOLEAN,
   EnableCORS : BOOLEAN, EnableCompression : {FALSE}]

Configs ==
  {c \in LoadedConfigs : /\ c.Host = "localhost" /\ c.Port = 8080
                         /\ c.Directory = "./public" /\ c.Level = "info"}

\* the yaml keys of Config
Fields == {"Host", "Port", "ReadTimeout", "WriteTimeout", "IdleTimeout", "Directory",
           "CacheMaxAge", "Level", "EnableRequestLogging", "EnableCORS", "EnableCompression"}

\* &Config{}: every field has its zero value
ZeroConfig ==
  [Host |-> "", Port |-> 0, ReadTimeout |-> 0, WriteTimeout |-> 0, IdleTimeout |-> 0,
   Directory |-> "", CacheMaxAge |-> "",
   Level |-> "", EnableRequestLogging |-> FALSE,
   EnableCORS |-> FALSE, EnableCompression |-> FALSE]

\* the values a configuration file gives the keys it sets: those of a
\* customised deployment, or the zero value of each type
FileValues ==
  { [Host |-> "0.0.0.0", Port |-> 9090, ReadTimeout |-> 60, WriteTimeout |-> 60,
     IdleTimeout |-> 240, Directory |-> "./test-public", CacheMaxAge |-> "7200",
     Level |-> "debug", EnableRequestLogging |-> FALSE,
     EnableCORS |-> FALSE, EnableCompression |-> TRUE],
    ZeroConfig }

\* the file at configPath: absent; present but unreadable; present but not
\* YAML that decodes into Config (syntax error, or a value of the wrong
\* type); or YAML that sets the keys in sets to their values
NoKeys == [kind : {"absent", "unreadable", "malformed"}, sets : {{}}, values : {ZeroConfig}]
Files == NoKeys \cup [kind : {"yaml"}, sets : SUBSET Fields, values : FileValues]

NoFileAtPath == [kind |-> "absent", sets |-> {}, values |-> ZeroConfig]

\* the file that sets every key to c's value
FileOf(c) == [kind |-> "yaml", sets |-> Fields, values |-> c]

\* yaml.Unmarshal(data, cfg): the keys the document sets are assigned, the
\* other fields of cfg are left as they are
Unmarshal(f, cfg) ==
  [k \in Fields |-> IF k \in f.sets THEN f.values[k] ELSE cfg[k]]

Load_NoDefaults(f) ==
  IF f.kind = "absent" THEN [cfg |-> ZeroConfig, err |-> "nil"]
  ELSE IF f.kind = "unreadable"
  THEN [cfg |-> ZeroConfig, err |-> "failed to read config file"]
  ELSE IF f.kind = "malformed"
  THEN [cfg |-> ZeroConfig, err |-> "failed to parse config file"]
  ELSE [cfg |-> Unmarshal(f, ZeroConfig), err |-> "nil"]

\* config.Load: the defaults are set first; a file that does not exist leaves
\* them; a file that cannot be read or parsed gives an error and no Config
\* (shown here as the zero Config); otherwise the file's keys overwrite the
\* defaults.
Load(f) ==
  LET cfg == [Host |-> "localhost", Port |-> 8080, ReadTimeout |-> 30,
              WriteTimeout |-> 30, IdleTimeout |-> 120,
              Directory |-> "./public", CacheMaxAge |-> "3600",
              Level |-> "info", EnableRequestLogging |-> TRUE,
              EnableCORS |-> TRUE, EnableCompression |-> FALSE]
  IN IF f.kind = "absent" THEN [cfg |-> cfg, err |-> "nil"]
     ELSE IF f.kind = "unreadable"
     THEN [cfg |-> ZeroConfig, err |-> "failed to read config file"]
     ELSE IF f.kind = "malformed"
     THEN [cfg |-> ZeroConfig, err |-> "failed to parse config file"]
     ELSE [cfg |-> Unmarshal(f, cfg), err |-> "nil"]

Validate_PortOffByOne(c) ==
  IF c.Port < 0 \/ c.Port > 65536 THEN "invalid port number"
  ELSE IF c.Directory = "" THEN "static directory cannot be empty"
  ELSE IF c.Level \notin {"debug", "info", "warn", "error"} THEN "invalid log level"
  ELSE "nil"

\* Config.Validate: the error it returns ("nil" for none); the checks are made
\* in this order and the first that fails decides the message.
Validate(c) ==
  IF c.Port < 1 \/ c.Port > 65535 THEN "invalid port number"
  ELSE IF c.Directory = "" THEN "static directory cannot be empty"
  ELSE IF c.Level \notin {"debug", "info", "warn", "error"} THEN "invalid log level"
  ELSE "nil"

\* main's shutdownCtx: 30*time.Second, counted in seconds
GracePeriod == 30

\* requests the model lets be in flight at once
MaxInFlight == 2

NoReq == [method |-> "", path |-> NoPath, host |-> "", query |-> "", body |-> "",
          xff |-> <<>>, xfh |-> <<>>]
NoOutbound == [sent |-> FALSE, method |-> "", urlHost |-> "", path |-> NoPath,
               query |-> "", body |-> "", host |-> "", xff |-> <<>>, xfh |-> <<>>]
NoResp == [status |-> 0, headers |-> {}, body |-> [format |-> "none", fields |-> {}, values |-> NoValues],
           location |-> NoPath]
NoLog == [method |-> "", path |-> NoPath, status |-> 0]

VARIABLES
  config,           \* s.config: the Config given to New
  handler,          \* s.httpServer.Handler: the layers, outermost first
  staticDirMissing, \* os.Stat(staticDir) failed when the static handler was built
  warnings,         \* "Static directory ... does not exist" lines printed
  pc,               \* "idle", "enter", "handler", "exit", "done"
  req,              \* the request being served
  layer,            \* index in handler of the layer entered next / returned to
  trace,            \* enter / run / exit events of the current request
  resp,             \* the ResponseWriter: status, headers, body
  writes,           \* how many times a status line was written
  target,           \* what mux.Handler selected
  fsKind,           \* what the filesystem held when the file server looked
  opened,           \* the filesystem path handed to os.Open
  upstream,         \* outcome of the upstream round trip
  attempts,         \* upstream round trips made for the current request
  outbound,         \* the request sent to the upstream
  proxyURL,         \* handleTasksProxy's target: what url.Parse returned ("" before)
  logged,           \* the line the Logger layer wrote
  mainPc,           \* main: "load", "new", "panicked", "go", "wait", "signalled", "shutdown", "returned"
  goPc,             \* main's goroutine: "none", "start", "serving", "returned"
  err,              \* what cfg.Validate returned to New ("unset" before the call)
  listening,        \* the listener of httpServer is open
  inShutdown,       \* httpServer.inShutdown: Shutdown has been called
  inflight,         \* connections with a request being served
  elapsed,          \* seconds since shutdownCtx was created
  exit,             \* "running", or how the process ended: "return", "fatal", "panic"
  file,             \* the file at configPath when main called config.Load
  loadErr,          \* the error config.Load returned to main ("unset" before the call)
  constructedWith,  \* the Config as it stood when New returned (history)
  clock,            \* time.Now(): ticks since the process started
  \* VelocityAPI.retryRequest (the browser client), one call of it:
  maxRetries,       \* its parameter
  baseDelay,        \* its parameter, in milliseconds
  rpc,              \* "call" (about to invoke requestFn), "wait", "returned", "thrown"
  attempt,          \* the loop variable
  lastError,        \* the error caught last
  result,           \* the value it returned
  delays,           \* the timeouts it has waited for, in order
  outcomes,         \* how each invocation of requestFn settled, in order (history)
  \* VelocityApp (the browser client):
  tasks,            \* this.tasks
  stats,            \* this.stats
  isOnline,         \* this.isOnline
  retryQueue,       \* this.retryQueue
  localStorage,     \* the keys velocityTasks and velocityRetryQueue
  calls,            \* operations the user started that await their API call
  runs,             \* for each processRetryQueue in progress, what is left of its
                    \* local queue; it awaits the API call of the first
  issued            \* operations the user has started so far (history)

vars == <<config, handler, staticDirMissing, warnings, pc, req, layer, trace, resp, writes,
          target, fsKind, opened, upstream, attempts, outbound, proxyURL, logged,
          mainPc, goPc, err, listening, inShutdown, inflight, elapsed, exit,
          file, loadErr, constructedWith, clock,
          maxRetries, baseDelay, rpc, attempt, lastError, result, delays, outcomes,
          tasks, stats, isOnline, retryQueue, localStorage, calls, runs, issued>>

\* the VelocityApp object and what it has in progress
app == <<tasks, stats, isOnline, retryQueue, localStorage, calls, runs, issued>>

\* one call of VelocityAPI.retryRequest
retrying == <<maxRetries, baseDelay, rpc, attempt, lastError, result, delays, outcomes>>

\* the browser client
client == <<retrying, app>>

\* no value: JavaScript's undefined
Undefined == [kind |-> "undefined"]

\* new VelocityApp(): no tasks, every counter zero, nothing queued or stored
NoStats ==
  [total |-> 0, completed |-> 0, pending |-> 0, in_progress |-> 0,
   high_priority |-> 0, medium_priority |-> 0, low_priority |-> 0]

NoApp ==
  /\ tasks = <<>>
  /\ stats = NoStats
  /\ retryQueue = <<>>
  /\ localStorage = [velocityTasks |-> Undefined, velocityRetryQueue |-> Undefined]
  /\ calls = <<>>
  /\ runs = <<>>
  /\ issued = 0

\* retryRequest has not been called
NoRetry ==
  /\ maxRetries = 0
  /\ baseDelay = 0
  /\ rpc = "none"
  /\ attempt = 0
  /\ lastError = Undefined
  /\ result = Undefined
  /\ delays = <<>>
  /\ outcomes = <<>>

\* the client is not running
NoClient ==
  /\ NoRetry
  /\ NoApp
  /\ isOnline = FALSE

\* what main read its configuration from
loading == <<file, loadErr>>

\* the process: main, its goroutine and the http.Server's connections
process == <<mainPc, goPc, err, listening, inShutdown, inflight, elapsed, exit>>

\* the request being served by the composed handler
serving == <<pc, req, layer, trace, resp, writes, target, fsKind, opened, upstream,
             attempts, outbound, proxyURL, logged>>

built == <<config, handler, staticDirMissing, warnings, constructedWith>>

NoTarget == [kind |-> "none", name |-> "", location |-> NoPath]

\* New has returned (Validate passed, routes registered, middleware composed),
\* the goroutine is in ListenAndServe and main waits for a signal.
Init ==
  /\ config \in Configs
  /\ handler = setupMiddleware(config)
  /\ constructedWith = config
  /\ staticDirMissing \in BOOLEAN
  /\ warnings = IF staticDirMissing THEN 1 ELSE 0
  /\ pc = "idle"
  /\ req = NoReq
  /\ layer = 0
  /\ trace = <<>>
  /\ resp = NoResp
  /\ writes = 0
  /\ target = NoTarget
  /\ fsKind = "none"
  /\ opened = NoFile
  /\ upstream = NoUpstream
  /\ attempts = 0
  /\ outbound = NoOutbound
  /\ proxyURL = ""
  /\ logged = NoLog
  /\ mainPc = "wait"
  /\ goPc = "serving"
  /\ err = "nil"
  /\ listening = TRUE
  /\ inShutdown = FALSE
  /\ inflight = 0
  /\ elapsed = 0
  /\ exit = "running"
  /\ clock = 0
  /\ NoClient
  /\ file = FileOf(config)
  /\ loadErr = "nil"


\* ----------------------------------------------------------------- actions
Cur == handler[layer]

\* a layer calls next.ServeHTTP
CallNext(name) ==
  /\ trace' = Append(trace, <<"enter", name>>)
  /\ layer' = layer + 1
  /\ pc' = "enter"

\* a layer returns to its caller; the outermost return completes the request
ReturnFrom(t) ==
  /\ trace' = t
  /\ IF layer = 1
     THEN pc' = "done" /\ layer' = 0
     ELSE pc' = "exit" /\ layer' = layer - 1

\* the server accepts a request and calls the composed handler
Receive(r) ==
  /\ pc = "idle"
  /\ req' = r
  /\ pc' = "enter"
  /\ layer' = 1
  /\ UNCHANGED <<client, clock, loading, process, built, trace, resp, writes, target, fsKind, opened, upstream, attempts, outbound, proxyURL, logged>>

\* middleware.Logger: wraps the writer and calls next
LoggerEnter ==
  /\ pc = "enter" /\ Cur = "Logger"
  /\ CallNext("Logger")
  /\ UNCHANGED <<client, clock, loading, process, built, req, resp, writes, target, fsKind, opened, upstream, attempts, outbound, proxyURL, logged>>

\* middleware.Logger after next returned: one line with method, path, status
LoggerExit ==
  /\ pc = "exit" /\ Cur = "Logger"
  /\ logged' = [method |-> req.method, path |-> req.path, status |-> resp.status]
  /\ ReturnFrom(Append(trace, <<"exit", "Logger">>))
  /\ UNCHANGED <<client, clock, loading, process, built, req, resp, writes, target, fsKind, opened, upstream, attempts, outbound, proxyURL>>

\* middleware.CORS: sets the headers, answers OPTIONS itself, else calls next
CORSEnter ==
  /\ pc = "enter" /\ Cur = "CORS"
  /\ IF req.method = "OPTIONS"
     THEN /\ resp' = [resp EXCEPT !.headers = SetAll(@, CORSHeaders), !.status = 200]
          /\ writes' = writes + 1
          /\ ReturnFrom(trace \o << <<"enter", "CORS">>, <<"exit", "CORS">> >>)
     ELSE /\ resp' = [resp EXCEPT !.headers = SetAll(@, CORSHeaders)]
          /\ writes' = writes
          /\ CallNext("CORS")
  /\ UNCHANGED <<client, clock, loading, process, built, req, target, fsKind, opened, upstream, attempts, outbound, proxyURL, logged>>

CORSExit ==
  /\ pc = "exit" /\ Cur = "CORS"
  /\ ReturnFrom(Append(trace, <<"exit", "CORS">>))
  /\ UNCHANGED <<client, clock, loading, process, built, req, resp, writes, target, fsKind, opened, upstream, attempts, outbound, proxyURL, logged>>

\* middleware.Security: sets the three headers and calls next
SecurityEnter ==
  /\ pc = "enter" /\ Cur = "Security"
  /\ resp' = [resp EXCEPT !.headers = SetAll(@, SecurityHeaders)]
  /\ CallNext("Security")
  /\ UNCHANGED <<client, clock, loading, process, built, req, writes, target, fsKind, opened, upstream, attempts, outbound, proxyURL, logged>>

SecurityExit ==
  /\ pc = "exit" /\ Cur = "Security"
  /\ ReturnFrom(Append(trace, <<"exit", "Security">>))
  /\ UNCHANGED <<client, clock, loading, process, built, req, resp, writes, target, fsKind, opened, upstream, attempts, outbound, proxyURL, logged>>

\* ServeMux.ServeHTTP: select the handler for the request
MuxServeHTTP ==
  /\ pc = "enter" /\ Cur = "mux"
  /\ target' = muxHandler(req.method, req.path)
  /\ trace' = Append(trace, <<"enter", "mux">>)
  /\ pc' = "handler"
  /\ UNCHANGED <<client, clock, loading, process, built, req, layer, resp, writes, fsKind, opened, upstream, attempts, outbound, proxyURL, logged>>

\* the selected handler wrote r and returned; the mux returns to Security
Handled(name, r) ==
  /\ resp' = r
  /\ writes' = writes + 1
  /\ trace' = trace \o << <<"run", name>>, <<"exit", "mux">> >>
  /\ layer' = layer - 1
  /\ pc' = "exit"

Selected(name) == pc = "handler" /\ target.name = name

\* json.NewEncoder(w).Encode(response): the object a client decodes from the
\* body, its keys and the value of each
JSONBody(obj) == [format |-> "json", fields |-> DOMAIN obj, values |-> obj]

APIResponse(fs) ==
  [resp EXCEPT !.status = 200,
               !.headers = HeaderSet(@, "Content-Type", <<"application/json">>),
               !.body = JSONBody(fs)]

handleHello_MethodFixed ==
  /\ Selected("handleHello")
  /\ Handled("handleHello",
             APIResponse([message |-> "Hello from FeatherJet!", timestamp |-> clock,
                          method |-> "GET", path |-> req.path]))
  /\ UNCHANGED <<client, clock, loading, process, built, req, target, fsKind, opened, upstream, attempts, outbound, proxyURL, logged>>

handleHello ==
  /\ Selected("handleHello")
  /\ Handled("handleHello",
             APIResponse([message |-> "Hello from FeatherJet!", timestamp |-> clock,
                          method |-> req.method, path |-> req.path]))
  /\ UNCHANGED <<client, clock, loading, process, built, req, target, fsKind, opened, upstream, attempts, outbound, proxyURL, logged>>

\* ticks that can pass between two readings of the clock made within one
\* call of a handler
MaxCallGap == 1

\* time.Since(t): the clock read again (gap ticks after the reading now)
\* minus t
Since(t, now, gap) == (now + gap) - t

handleStatus_SinceStart ==
  /\ Selected("handleStatus")
  /\ \E gap \in 0..MaxCallGap :
       Handled("handleStatus",
               APIResponse([status |-> "healthy", server |-> "FeatherJet",
                            version |-> "1.0.0", timestamp |-> clock,
                            uptime |-> Since(0, clock, gap)]))
  /\ UNCHANGED <<client, clock, loading, process, built, req, target, fsKind, opened, upstream, attempts, outbound, proxyURL, logged>>

\* handleStatus: uptime is time.Since(time.Now()): the instant passed to
\* Since is read in the same expression, a moment before Since reads the
\* clock again
handleStatus ==
  /\ Selected("handleStatus")
  /\ \E gap \in 0..MaxCallGap :
       Handled("handleStatus",
               APIResponse([status |-> "healthy", server |-> "FeatherJet",
                            version |-> "1.0.0", timestamp |-> clock,
                            uptime |-> Since(clock, clock, gap)]))
  /\ UNCHANGED <<client, clock, loading, process, built, req, target, fsKind, opened, upstream, attempts, outbound, proxyURL, logged>>

handleInfo ==
  /\ Selected("handleInfo")
  /\ \E exists \in BOOLEAN :
       Handled("handleInfo",
             APIResponse([server |-> [name |-> "FeatherJet", version |-> "1.0.0",
                                      host |-> config.Host, port |-> config.Port],
                          static |-> [directory |-> config.Directory,
                                      exists |-> exists],
                          middleware |-> [cors_enabled |-> config.EnableCORS,
                                          compression_enabled |-> config.EnableCompression,
                                          request_logging |-> config.EnableRequestLogging],
                          timestamp |-> clock]))
  /\ UNCHANGED <<client, clock, loading, process, built, req, target, fsKind, opened, upstream, attempts, outbound, proxyURL, logged>>

\* handleTasksProxy: the target is parsed, a proxy for it is made, and the
\* proxy serves the request: one round trip to the upstream, its answer
\* relayed
handleTasksProxy ==
  /\ Selected("handleTasksProxy")
  /\ \E u \in UpstreamOutcomes :
       /\ upstream' = u
       /\ attempts' = attempts + 1
       /\ proxyURL' = ProxyTarget
       /\ outbound' = director(req)
       /\ Handled("handleTasksProxy", reverseProxy(resp.headers, u))
  /\ UNCHANGED <<client, clock, loading, process, built, req, target, fsKind, opened, logged>>

\* staticDirNotFound looking at the filesystem again on every request
staticDirNotFound_PerRequestCheck ==
  /\ Selected("staticHandler") /\ staticDirMissing
  /\ \E k \in FsKinds :
       LET r == IF k = "none" THEN httpError(resp.headers, 404) @@ [opened |-> NoFile]
                ELSE staticFileHandler(config, resp.headers, req.path, k) IN
       /\ fsKind' = k
       /\ opened' = r.opened
       /\ Handled("staticHandler",
                  [status |-> r.status, headers |-> r.headers, body |-> r.body,
                   location |-> r.location])
  /\ UNCHANGED <<client, clock, loading, process, built, req, target, upstream, attempts, outbound, proxyURL, logged>>

\* the static handler built when the directory was missing at construction;
\* whatever the filesystem holds by now (k), it answers "not found"
staticDirNotFound ==
  /\ Selected("staticHandler") /\ staticDirMissing
  /\ \E k \in FsKinds : fsKind' = k
  /\ opened' = NoFile
  /\ Handled("staticHandler", httpError(resp.headers, 404))
  /\ UNCHANGED <<client, clock, loading, process, built, req, target, upstream, attempts, outbound, proxyURL, logged>>

\* the static handler built when the directory existed at construction
staticHandler ==
  /\ Selected("staticHandler") /\ ~staticDirMissing
  /\ \E k \in FsKinds :
       LET r == staticFileHandler(config, resp.headers, req.path, k) IN
       /\ fsKind' = k
       /\ opened' = r.opened
       /\ Handled("staticHandler",
                  [status |-> r.status, headers |-> r.headers, body |-> r.body,
                   location |-> r.location])
  /\ UNCHANGED <<client, clock, loading, process, built, req, target, upstream, attempts, outbound, proxyURL, logged>>

\* http.RedirectHandler chosen by the mux for a path that is not clean
RedirectHandler ==
  /\ pc = "handler" /\ target.kind = "redirect"
  /\ Handled("RedirectHandler",
             [resp EXCEPT !.status = 301, !.location = target.location,
                          !.headers = HeaderSet(@, "Content-Type", <<"text/html; charset=utf-8">>),
                          !.body = [format |-> "html", fields |-> {}, values |-> NoValues]])
  /\ UNCHANGED <<client, clock, loading, process, built, req, target, fsKind, opened, upstream, attempts, outbound, proxyURL, logged>>

\* the response is complete and the request's context is discarded
Finish ==
  /\ pc = "done"
  /\ pc' = "idle"
  /\ req' = NoReq
  /\ layer' = 0
  /\ trace' = <<>>
  /\ resp' = NoResp
  /\ writes' = 0
  /\ target' = NoTarget
  /\ fsKind' = "none"
  /\ opened' = NoFile
  /\ upstream' = NoUpstream
  /\ attempts' = 0
  /\ outbound' = NoOutbound
  /\ proxyURL' = ""
  /\ logged' = NoLog
  /\ UNCHANGED <<client, clock, loading, process, built>>

Next ==
  \/ pc = "idle" /\ \E r \in Requests : Receive(r)
  \/ Finish
  \/ LoggerEnter
  \/ LoggerExit
  \/ CORSEnter
  \/ CORSExit
  \/ SecurityEnter
  \/ SecurityExit
  \/ MuxServeHTTP
  \/ handleHello
  \/ handleStatus
  \/ handleInfo
  \/ handleTasksProxy
  \/ staticDirNotFound
  \/ staticHandler
  \/ RedirectHandler

Spec == Init /\ [][Next]_vars

TypeOK ==
  /\ config \in Configs
  /\ pc \in {"idle", "enter", "handler", "exit", "done"}
  /\ layer \in 0..Len(handler)
  /\ writes \in 0..2
  /\ resp.status \in {0, 200, 301, 404, 502}


\* ------------------------------------------ serving a sample of requests
\* one request for each handler the mux can select, all from one client
SamplePaths ==
  {<<"">>, <<"f">>, <<"api", "hello">>, <<"api", "status">>, <<"api", "info">>,
   <<"api", "tasks">>, <<"api", "tasks", ".">>, <<"api", "apix">>}

SampleRequests ==
  [method : {"GET", "OPTIONS"}, path : SamplePaths, host : {"localhost:8081"},
   query : {""}, body : {""}, xff : {<<>>}, xfh : {<<>>}]

\* the layers and handlers serving the requests of reqs, one at a time
Serve(reqs) ==
  \/ pc = "idle" /\ \E r \in reqs : Receive(r)
  \/ Finish
  \/ LoggerEnter
  \/ LoggerExit
  \/ CORSEnter
  \/ CORSExit
  \/ SecurityEnter
  \/ SecurityExit
  \/ MuxServeHTTP
  \/ handleHello
  \/ handleStatus
  \/ handleInfo
  \/ handleTasksProxy
  \/ staticDirNotFound
  \/ staticHandler
  \/ RedirectHandler

\* ------------------------------------------- the proxy's own upstream
\* host and port of the proxy target http://localhost:8080
ProxyTargetHost == "localhost"
ProxyTargetPort == 8080

\* forwarding hops the model follows before the round trip fails for want of
\* connections
MaxHops == 2

\* httpServer.Addr is Host:Port; the server is its own upstream when it
\* listens on the target's port on the target's host or on every interface
SelfTarget(c) ==
  c.Port = ProxyTargetPort /\ c.Host \in {ProxyTargetHost, "0.0.0.0"}

\* handleTasksProxy when the server listens where the target points: the
\* outbound request is accepted by this server's own listener and enters the
\* handler chain as a new request, with a new ResponseWriter, while the
\* forwarding handler waits for its answer.
LoopBack ==
  /\ Selected("handleTasksProxy")
  /\ SelfTarget(config)
  /\ attempts < MaxHops
  /\ attempts' = attempts + 1
  /\ proxyURL' = ProxyTarget
  /\ outbound' = director(req)
  /\ req' = [method |-> outbound'.method, path |-> outbound'.path,
             host |-> outbound'.host, query |-> outbound'.query,
             body |-> outbound'.body, xff |-> outbound'.xff, xfh |-> outbound'.xfh]
  /\ trace' = Append(trace, <<"forward", "self">>)
  /\ resp' = NoResp
  /\ writes' = 0
  /\ target' = NoTarget
  /\ pc' = "enter"
  /\ layer' = 1
  /\ UNCHANGED <<client, clock, loading, process, built, fsKind, opened, upstream, logged>>

NextLoop ==
  \/ Serve(SampleRequests)
  \/ LoopBack

SpecLoop == Init /\ [][NextLoop]_vars

\* ------------------------------------------------------------ time passes
\* ticks the model lets the process run
MaxClock == 3

Tick ==
  /\ clock < MaxClock
  /\ clock' = clock + 1
  /\ UNCHANGED <<client, loading, process, built, serving>>

NextClock ==
  \/ Serve(SampleRequests)
  \/ Tick

SpecClock == Init /\ [][NextClock]_vars

\* ------------------------------------- the caller changes the Config it gave
\* Server.config is the pointer New was given, so an assignment the caller
\* makes to a field of that Config between two requests is an assignment to
\* s.config: the Config becomes c, nothing New built is touched.
SetConfig(c) ==
  /\ pc = "idle"
  /\ c # config
  /\ config' = c
  /\ UNCHANGED <<client, clock, loading, process, serving, handler, staticDirMissing, warnings,
                 constructedWith>>

NextReconfig ==
  \/ Serve(SampleRequests)
  \/ pc = "idle" /\ \E c \in Configs : SetConfig(c)

SpecReconfig == Init /\ [][NextReconfig]_vars

\* ------------------------------------------------------- the process: main
\* main after config.Load has returned cfg without error: nothing is built,
\* no goroutine runs, no socket is open.
InitMain ==
  /\ config \in LoadedConfigs
  /\ handler = <<>>
  /\ constructedWith = ZeroConfig
  /\ staticDirMissing = FALSE
  /\ warnings = 0
  /\ pc = "idle"
  /\ req = NoReq
  /\ layer = 0
  /\ trace = <<>>
  /\ resp = NoResp
  /\ writes = 0
  /\ target = NoTarget
  /\ fsKind = "none"
  /\ opened = NoFile
  /\ upstream = NoUpstream
  /\ attempts = 0
  /\ outbound = NoOutbound
  /\ proxyURL = ""
  /\ logged = NoLog
  /\ mainPc = "new"
  /\ goPc = "none"
  /\ err = "unset"
  /\ listening = FALSE
  /\ inShutdown = FALSE
  /\ inflight = 0
  /\ elapsed = 0
  /\ exit = "running"
  /\ clock = 0
  /\ NoClient
  /\ file = FileOf(config)
  /\ loadErr = "nil"

Running == exit = "running"

New_NoPanic ==
  /\ exit = "running" /\ mainPc = "new"
  /\ err' = Validate(config)
  /\ mainPc' = "go"
  /\ handler' = setupMiddleware(config)
  /\ constructedWith' = config
  /\ staticDirMissing' \in BOOLEAN
  /\ warnings' = IF staticDirMissing' THEN 1 ELSE 0
  /\ UNCHANGED <<client, clock, loading, config, serving, goPc, listening, inShutdown, inflight, elapsed, exit>>

\* server.New(cfg): panics when Validate returns an error, otherwise registers
\* the routes (the static handler looks at the directory once) and composes
\* the middleware.  The Config is only read.
New ==
  /\ Running /\ mainPc = "new"
  /\ err' = Validate(config)
  /\ IF err' # "nil"
     THEN /\ mainPc' = "panicked"
          /\ exit' = "panic"
          /\ UNCHANGED <<handler, staticDirMissing, warnings, constructedWith>>
     ELSE /\ mainPc' = "go"
          /\ handler' = setupMiddleware(config)
          /\ constructedWith' = config
          /\ staticDirMissing' \in BOOLEAN
          /\ warnings' = IF staticDirMissing' THEN 1 ELSE 0
          /\ exit' = exit
  /\ UNCHANGED <<client, clock, loading, config, serving, goPc, listening, inShutdown, inflight, elapsed>>

\* main starts the goroutine that calls srv.Start and goes on to wait for a
\* signal
GoStart ==
  /\ Running /\ mainPc = "go"
  /\ mainPc' = "wait"
  /\ goPc' = "start"
  /\ UNCHANGED <<client, clock, loading, built, serving, err, listening, inShutdown, inflight, elapsed, exit>>

\* Server.Start: ListenAndServe returns ErrServerClosed at once when Shutdown
\* was already called; otherwise it opens the listener and serves, or fails
\* to bind and returns that error.
Start ==
  /\ Running /\ goPc = "start"
  /\ IF inShutdown
     THEN goPc' = "returned" /\ listening' = listening
     ELSE \/ goPc' = "serving" /\ listening' = TRUE
          \/ goPc' = "returned" /\ listening' = listening
  /\ UNCHANGED <<client, clock, loading, built, serving, mainPc, err, inShutdown, inflight, elapsed, exit>>

\* the listener accepts a connection and its request is handed to the handler
Accept ==
  /\ Running /\ listening /\ inflight < MaxInFlight
  /\ inflight' = inflight + 1
  /\ UNCHANGED <<client, clock, loading, built, serving, mainPc, goPc, err, listening, inShutdown, elapsed, exit>>

\* a request in flight completes and its connection becomes idle
Complete ==
  /\ Running /\ inflight > 0
  /\ inflight' = inflight - 1
  /\ UNCHANGED <<client, clock, loading, built, serving, mainPc, goPc, err, listening, inShutdown, elapsed, exit>>

\* os.Interrupt or SIGTERM arrives on sigChan; main creates shutdownCtx
Signal ==
  /\ Running /\ mainPc = "wait"
  /\ mainPc' = "signalled"
  /\ elapsed' = 0
  /\ UNCHANGED <<client, clock, loading, built, serving, goPc, err, listening, inShutdown, inflight, exit>>

\* Server.Shutdown is called: inShutdown is set and the listener closed
Shutdown ==
  /\ Running /\ mainPc = "signalled"
  /\ mainPc' = "shutdown"
  /\ inShutdown' = TRUE
  /\ listening' = FALSE
  /\ UNCHANGED <<client, clock, loading, built, serving, goPc, err, inflight, elapsed, exit>>

\* a second of the grace period passes
Timer ==
  /\ Running /\ mainPc \in {"signalled", "shutdown"}
  /\ elapsed < GracePeriod
  /\ elapsed' = elapsed + 1
  /\ UNCHANGED <<client, clock, loading, built, serving, mainPc, goPc, err, listening, inShutdown, inflight, exit>>

\* Shutdown returns nil once no connection is active, or ctx.Err() when the
\* grace period is over
ShutdownReturns ==
  /\ Running /\ mainPc = "shutdown"
  /\ inflight = 0 \/ elapsed = GracePeriod
  /\ mainPc' = "returned"
  /\ UNCHANGED <<client, clock, loading, built, serving, goPc, err, listening, inShutdown, inflight, elapsed, exit>>

\* main logs the outcome of Shutdown and returns: the process ends and every
\* connection still open is closed with it
MainReturns ==
  /\ Running /\ mainPc = "returned"
  /\ exit' = "return"
  /\ UNCHANGED <<client, clock, loading, built, serving, mainPc, goPc, err, listening, inShutdown, inflight, elapsed>>

\* in the goroutine, ListenAndServe returns ErrServerClosed as soon as
\* Shutdown has closed the listener
ListenAndServeReturns ==
  /\ Running /\ goPc = "serving" /\ inShutdown
  /\ goPc' = "returned"
  /\ UNCHANGED <<client, clock, loading, built, serving, mainPc, err, listening, inShutdown, inflight, elapsed, exit>>

\* the goroutine: srv.Start returned a non-nil error (ListenAndServe always
\* does), so log.Fatalf prints it and calls os.Exit(1)
Fatalf ==
  /\ Running /\ goPc = "returned"
  /\ exit' = "fatal"
  /\ UNCHANGED <<client, clock, loading, built, serving, mainPc, goPc, err, listening, inShutdown, inflight, elapsed>>

\* ------------------------------------------- the process: main before New
\* main has parsed its flags: the file at configPath is whatever it is, no
\* Config exists yet.
InitLoad ==
  /\ file \in Files
  /\ loadErr = "unset"
  /\ config = ZeroConfig
  /\ handler = <<>>
  /\ constructedWith = ZeroConfig
  /\ staticDirMissing = FALSE
  /\ warnings = 0
  /\ pc = "idle"
  /\ req = NoReq
  /\ layer = 0
  /\ trace = <<>>
  /\ resp = NoResp
  /\ writes = 0
  /\ target = NoTarget
  /\ fsKind = "none"
  /\ opened = NoFile
  /\ upstream = NoUpstream
  /\ attempts = 0
  /\ outbound = NoOutbound
  /\ proxyURL = ""
  /\ logged = NoLog
  /\ mainPc = "load"
  /\ goPc = "none"
  /\ err = "unset"
  /\ listening = FALSE
  /\ inShutdown = FALSE
  /\ inflight = 0
  /\ elapsed = 0
  /\ exit = "running"
  /\ clock = 0
  /\ NoClient

\* main: cfg, err := config.Load(*configPath); an error is fatal
MainLoad ==
  /\ Running /\ mainPc = "load"
  /\ loadErr' = Load(file).err
  /\ IF loadErr' # "nil"
     THEN mainPc' = "failed" /\ exit' = "fatal" /\ config' = config
     ELSE mainPc' = "new" /\ exit' = exit /\ config' = Load(file).cfg
  /\ UNCHANGED <<client, clock, file, handler, staticDirMissing, warnings, constructedWith, serving, goPc, err, listening,
                 inShutdown, inflight, elapsed>>

NextLoad ==
  \/ MainLoad

SpecLoad == InitLoad /\ [][NextLoad]_vars

NextMain ==
  \/ New
  \/ GoStart
  \/ Start
  \/ Accept
  \/ Complete
  \/ Signal
  \/ Shutdown
  \/ Timer
  \/ ShutdownReturns
  \/ MainReturns
  \/ ListenAndServeReturns
  \/ Fatalf

SpecMain == InitMain /\ [][NextMain]_vars

TypeOKMain ==
  /\ config \in LoadedConfigs
  /\ mainPc \in {"new", "panicked", "go", "wait", "signalled", "shutdown", "returned"}
  /\ goPc \in {"none", "start", "serving", "returned"}
  /\ err \in {"unset", "nil", "invalid port number", "static directory cannot be empty",
              "invalid log level"}
  /\ listening \in BOOLEAN /\ inShutdown \in BOOLEAN
  /\ inflight \in 0..MaxInFlight
  /\ elapsed \in 0..GracePeriod
  /\ exit \in {"running", "return", "fatal", "panic"}

\* ------------------------------------------- the browser client: api.js
\* no server process is part of a run of the client
NoServer ==
  /\ file = NoFileAtPath
  /\ loadErr = "unset"
  /\ config = ZeroConfig
  /\ handler = <<>>
  /\ constructedWith = ZeroConfig
  /\ staticDirMissing = FALSE
  /\ warnings = 0
  /\ pc = "idle"
  /\ req = NoReq
  /\ layer = 0
  /\ trace = <<>>
  /\ resp = NoResp
  /\ writes = 0
  /\ target = NoTarget
  /\ fsKind = "none"
  /\ opened = NoFile
  /\ upstream = NoUpstream
  /\ attempts = 0
  /\ outbound = NoOutbound
  /\ proxyURL = ""
  /\ logged = NoLog
  /\ mainPc = "load"
  /\ goPc = "none"
  /\ err = "unset"
  /\ listening = FALSE
  /\ inShutdown = FALSE
  /\ inflight = 0
  /\ elapsed = 0
  /\ exit = "running"
  /\ clock = 0

server == <<clock, loading, process, built, serving>>

\* strings whose content the client looks into are sequences of characters
HTTP4 == <<"H", "T", "T", "P", " ", "4">>
HTTP5 == <<"H", "T", "T", "P", " ", "5">>
NotFoundText == <<"0", "4", ":", " ", "N", "o", "t", " ", "F", "o", "u", "n", "d">>
ServerErrorText == <<"0", "0", ":", " ", "I", "n", "t", "e", "r", "n", "a", "l">>
TaskNotFound == <<"T", "a", "s", "k", " ", "n", "o", "t", " ", "f", "o", "u", "n", "d">>
RequestTimeout == <<"R", "e", "q", "u", "e", "s", "t", " ", "t", "i", "m", "e", "o", "u", "t">>

\* String.prototype.includes
Includes(str, part) ==
  \E i \in 0..(Len(str) - Len(part)) : SubSeq(str, i + 1, i + Len(part)) = part

\* `HTTP ${response.status}: ${response.statusText}`
StatusLine(status) ==
  IF status = 404 THEN HTTP4 \o NotFoundText ELSE HTTP5 \o ServerErrorText

\* the responses that are not ok: a status, and the error field of the JSON
\* body (<<>> when the body has none, or is not JSON)
ErrorResponses == [status : {404, 500}, error : {<<>>, TaskNotFound}]

\* VelocityAPI.request on a response that is not ok: the Error it throws
\* carries the body's error text, or the status line when there is none
RequestError(r) ==
  [kind |-> "error", message |-> IF r.error # <<>> THEN r.error ELSE StatusLine(r.status)]

\* how one invocation of requestFn (a call of VelocityAPI.request) settles:
\* with the response's data, with the Error for a response that is not ok,
\* or with the timeout Error
Settlements ==
  {[ok |-> TRUE, status |-> 200, value |-> [kind |-> "data"]]}
  \cup {[ok |-> FALSE, status |-> r.status, value |-> RequestError(r)] : r \in ErrorResponses}
  \cup {[ok |-> FALSE, status |-> 0,
          value |-> [kind |-> "error", message |-> RequestTimeout]]}

\* Math.pow(2, n)
RECURSIVE Pow2(_)
Pow2(n) == IF n = 0 THEN 1 ELSE 2 * Pow2(n - 1)

\* retries a caller of retryRequest asks for
MaxRetries == 2

InitRetry ==
  /\ NoServer
  /\ NoApp
  /\ isOnline = TRUE
  /\ maxRetries \in 0..MaxRetries
  /\ baseDelay \in {250, 1000}
  /\ rpc = "call"
  /\ attempt = 0
  /\ lastError = Undefined
  /\ result = Undefined
  /\ delays = <<>>
  /\ outcomes = <<>>

\* one turn of retryRequest's loop: requestFn is invoked and settles as o; a
\* value is returned; an error is kept, and ends the loop on the last
\* attempt or when its message includes "HTTP 4", else the backoff timer is
\* set
Invoke(o) ==
  /\ rpc = "call"
  /\ outcomes' = Append(outcomes, o)
  /\ IF o.ok
     THEN /\ result' = o.value
          /\ rpc' = "returned"
          /\ UNCHANGED <<lastError, delays>>
     ELSE /\ lastError' = o.value
          /\ result' = result
          /\ IF attempt = maxRetries \/ Includes(o.value.message, HTTP4)
             THEN rpc' = "thrown" /\ delays' = delays
             ELSE rpc' = "wait" /\ delays' = Append(delays, baseDelay * Pow2(attempt))
  /\ UNCHANGED <<server, app, maxRetries, baseDelay, attempt>>

\* the backoff timer fires and the loop goes round
Backoff ==
  /\ rpc = "wait"
  /\ attempt' = attempt + 1
  /\ rpc' = "call"
  /\ UNCHANGED <<server, app, maxRetries, baseDelay, lastError, result, delays, outcomes>>

NextRetry ==
  \/ \E o \in Settlements : Invoke(o)
  \/ Backoff

SpecRetry == InitRetry /\ [][NextRetry]_vars

\* ------------------------------------------- the browser client: app.js
Statuses == {"pending", "in_progress", "completed"}
Priorities == {"low", "medium", "high"}

\* `${priority}_priority`
PriorityKey(p) ==
  CASE p = "low" -> "low_priority" [] p = "medium" -> "medium_priority"
    [] p = "high" -> "high_priority"

\* operations the user starts in a run of the model
MaxOps == 3

\* entries the retry queue may hold in a run of the model
MaxQueue == 4

\* user operations that may await their API call at once
MaxCalls == 1

\* processRetryQueue calls that may be in progress at once
MaxRuns == 1

\* what the user asks for: a new task, or a change or the removal of the
\* task with an id
UserOps(ids) ==
  {[action |-> "create", id |-> 0]} \cup [action : {"update", "delete"}, id : ids]

NoTask == [id |-> 0, status |-> "", priority |-> ""]

Ids(ts) == {ts[i].id : i \in DOMAIN ts}

\* the tasks the server may answer an operation with, among those of pool: a
\* task with an id the client does not hold for a create, the task with the
\* operation's id for an update, nothing for a delete
Answers(op, pool) ==
  IF op.action = "create" THEN {t \in pool : t.id \notin Ids(tasks)}
  ELSE IF op.action = "update" THEN {t \in pool : t.id = op.id}
  ELSE {NoTask}

\* Array.prototype.findIndex(task => task.id === id); 0 for JavaScript's -1
FindIndex(ts, id) ==
  IF id \in Ids(ts) THEN CHOOSE i \in DOMAIN ts : ts[i].id = id /\ \A j \in 1..(i - 1) : ts[j].id # id
  ELSE 0

RemoveAt(seq, i) == SubSeq(seq, 1, i - 1) \o SubSeq(seq, i + 1, Len(seq))

\* calculateLocalStats
calculateLocalStats(ts) ==
  LET n(P(_)) == Cardinality({i \in DOMAIN ts : P(ts[i])})
      isCompleted(t) == t.status = "completed"
      isInProgress(t) == t.status = "in_progress"
      isPending(t) == t.status \notin {"completed", "in_progress"}
      isHigh(t) == t.priority = "high"
      isMedium(t) == t.priority = "medium"
      isLow(t) == t.priority \notin {"high", "medium"}
  IN [total |-> Len(ts), completed |-> n(isCompleted), pending |-> n(isPending),
      in_progress |-> n(isInProgress), high_priority |-> n(isHigh),
      medium_priority |-> n(isMedium), low_priority |-> n(isLow)]

\* updateStatsForTaskChange
updateStatsForTaskChange(st, oldTask, newTask) ==
  LET s1 == IF oldTask.status # newTask.status
            THEN [st EXCEPT ![oldTask.status] = @ - 1, ![newTask.status] = @ + 1]
            ELSE st
  IN IF oldTask.priority # newTask.priority
     THEN [s1 EXCEPT ![PriorityKey(oldTask.priority)] = @ - 1,
                     ![PriorityKey(newTask.priority)] = @ + 1]
     ELSE s1

\* what createTask, updateTask and deleteTask do to tasks and stats once the
\* API call has succeeded with answer t
Applied(op, t) ==
  LET index == FindIndex(tasks, op.id) IN
  IF op.action = "create"
  THEN [tasks |-> <<t>> \o tasks,
        stats |-> [stats EXCEPT !.total = @ + 1, !.pending = @ + 1,
                                ![PriorityKey(t.priority)] = @ + 1]]
  ELSE IF index = 0
  THEN [tasks |-> tasks, stats |-> stats]
  ELSE IF op.action = "update"
  THEN [tasks |-> [tasks EXCEPT ![index] = t],
        stats |-> updateStatsForTaskChange(stats, tasks[index], t)]
  ELSE [tasks |-> RemoveAt(tasks, index),
        stats |-> [stats EXCEPT !.total = @ - 1, ![tasks[index].status] = @ - 1,
                                ![PriorityKey(tasks[index].priority)] = @ - 1]]

\* the tail of an operation that succeeded: tasks and stats are changed,
\* rendered (the page is not modelled) and saved
Succeeded(op, t) ==
  /\ tasks' = Applied(op, t).tasks
  /\ stats' = Applied(op, t).stats

\* every entry twice, in order
Doubled(seq) == [i \in 1..(2 * Len(seq)) |-> seq[(i + 1) \div 2]]

\* processRetryQueue after it has dealt with one operation, rest being what
\* is left of its local queue and rq the retry queue: online, it starts the
\* next operation and awaits it; offline, each operation left throws at
\* once, is queued by its own catch and again by processRetryQueue's;
\* with nothing left the run ends and saves the queue.  saved: the operation
\* dealt with has saved the tasks
Continue(i, rest, rq, saved) ==
  LET rq1 == IF isOnline THEN rq ELSE rq \o Doubled(rest) IN
  /\ Len(rq1) <= MaxQueue
  /\ retryQueue' = rq1
  /\ runs' = IF rest # <<>> /\ isOnline THEN [runs EXCEPT ![i] = rest] ELSE RemoveAt(runs, i)
  /\ localStorage' =
       [localStorage EXCEPT
          !.velocityTasks = IF saved THEN [tasks |-> tasks', stats |-> stats'] ELSE @,
          !.velocityRetryQueue = IF rest = <<>> \/ ~isOnline THEN rq1 ELSE @]

\* the user starts createTask, updateTask or deleteTask: offline it throws at
\* once and its catch queues the operation; online it awaits the API call
UserCall(o) ==
  /\ issued < MaxOps
  /\ issued' = issued + 1
  /\ LET op == [action |-> o.action, id |-> o.id, data |-> issued + 1] IN
     IF isOnline
     THEN /\ Len(calls) < MaxCalls
          /\ calls' = Append(calls, op)
          /\ UNCHANGED <<retryQueue, localStorage>>
     ELSE /\ Len(retryQueue) < MaxQueue
          /\ retryQueue' = Append(retryQueue, op)
          /\ localStorage' = [localStorage EXCEPT !.velocityRetryQueue = retryQueue']
          /\ calls' = calls
  /\ UNCHANGED <<server, retrying, tasks, stats, isOnline, runs>>

\* the API call of a user's operation succeeds with answer t
CallSucceeds(i, t) ==
  /\ Succeeded(calls[i], t)
  /\ localStorage' = [localStorage EXCEPT
                        !.velocityTasks = [tasks |-> tasks', stats |-> stats']]
  /\ calls' = RemoveAt(calls, i)
  /\ UNCHANGED <<server, retrying, isOnline, retryQueue, runs, issued>>

\* the API call of a user's operation fails: the catch queues the operation
\* if the client is offline by now
CallFails(i) ==
  /\ calls' = RemoveAt(calls, i)
  /\ IF isOnline
     THEN UNCHANGED <<retryQueue, localStorage>>
     ELSE /\ Len(retryQueue) < MaxQueue
          /\ retryQueue' = Append(retryQueue, calls[i])
          /\ localStorage' = [localStorage EXCEPT !.velocityRetryQueue = retryQueue']
  /\ UNCHANGED <<server, retrying, tasks, stats, isOnline, runs, issued>>

\* the API call a processRetryQueue awaits succeeds with answer t
RunSucceeds(i, t) ==
  /\ Succeeded(Head(runs[i]), t)
  /\ Continue(i, Tail(runs[i]), retryQueue, TRUE)
  /\ UNCHANGED <<server, retrying, isOnline, calls, issued>>

\* the API call a processRetryQueue awaits fails: the operation's own catch
\* queues it if the client is offline by now, and processRetryQueue's catch
\* queues it
RunFails(i) ==
  LET op == Head(runs[i])
      rq == IF isOnline THEN Append(retryQueue, op) ELSE retryQueue \o <<op, op>>
  IN /\ Continue(i, Tail(runs[i]), rq, FALSE)
     /\ UNCHANGED <<server, retrying, tasks, stats, isOnline, calls, issued>>

\* the browser's online event: the handler sets isOnline and calls
\* processRetryQueue, which takes the whole queue and starts its first
\* operation
Online ==
  /\ ~isOnline
  /\ isOnline' = TRUE
  /\ IF retryQueue = <<>>
     THEN UNCHANGED <<retryQueue, runs>>
     ELSE /\ Len(runs) < MaxRuns
          /\ runs' = Append(runs, retryQueue)
          /\ retryQueue' = <<>>
  /\ UNCHANGED <<server, retrying, tasks, stats, localStorage, calls, issued>>

\* the browser's offline event
Offline ==
  /\ isOnline
  /\ isOnline' = FALSE
  /\ UNCHANGED <<server, retrying, tasks, stats, retryQueue, localStorage, calls, runs, issued>>

\* the page has loaded with no tasks on the server
InitApp ==
  /\ NoServer
  /\ NoRetry
  /\ NoApp
  /\ isOnline \in BOOLEAN

\* the client with one task id and one kind of task, going on and off line
QueueTasks == [id : {1}, status : {"pending"}, priority : {"low"}]

NextQueue ==
  \/ \E o \in UserOps({1}) : UserCall(o)
  \/ \E i \in DOMAIN calls : \E t \in Answers(calls[i], QueueTasks) : CallSucceeds(i, t)
  \/ \E i \in DOMAIN calls : CallFails(i)
  \/ \E i \in DOMAIN runs : \E t \in Answers(Head(runs[i]), QueueTasks) : RunSucceeds(i, t)
  \/ \E i \in DOMAIN runs : RunFails(i)
  \/ Online
  \/ Offline

SpecQueue == InitApp /\ [][NextQueue]_vars

\* the client online throughout, the server answering with any task
StatsTasks == [id : 1..2, status : Statuses, priority : Priorities]

NextStats ==
  \/ isOnline /\ \E o \in UserOps(1..2) : UserCall(o)
  \/ \E i \in DOMAIN calls : \E t \in Answers(calls[i], StatsTasks) : CallSucceeds(i, t)
  \/ \E i \in DOMAIN calls : CallFails(i)

InitStats == InitApp /\ isOnline

SpecStats == InitStats /\ [][NextStats]_vars

\* ------------------------------------------------- vocabulary of the claims
Done == pc = "done"

Count(ev) == Cardinality({i \in DOMAIN trace : trace[i] = ev})
Entered(name) == Count(<<"enter", name>>) > 0
Ran(name) == Count(<<"run", name>>) > 0

Names == HeaderNames(resp.headers)
SecurityHeaderNames == {"X-Content-Type-Options", "X-Frame-Options", "X-XSS-Protection"}
CORSHeaderNames == {"Access-Control-Allow-Origin", "Access-Control-Allow-Methods",
                    "Access-Control-Allow-Headers"}

\* the request is a preflight the CORS layer answers itself
Preflight == config.EnableCORS /\ req.method = "OPTIONS"

\* the paths the registered API and proxy routes claim
ExactAPIPaths == {<<"api", "hello">>, <<"api", "status">>, <<"api", "info">>, <<"api", "tasks">>}
UnderTasks(p) == Len(p) >= 3 /\ p[1] = "api" /\ p[2] = "tasks"
ClaimedByAPI(p) == p \in ExactAPIPaths \/ UnderTasks(p)

\* the path string begins with "/api"
BeginsWithApi(p) == p # <<>> /\ p[1] \in {"api", "apix"}

\* following the segments from the static root climbs above the root
RECURSIVE Climbs(_, _)
Climbs(p, depth) ==
  IF p = <<>> THEN FALSE
  ELSE IF Head(p) = ".." THEN (depth = 0 \/ Climbs(Tail(p), depth - 1))
  ELSE IF Head(p) \in {"", "."} THEN Climbs(Tail(p), depth)
  ELSE Climbs(Tail(p), depth + 1)
EscapesRoot(p) == Climbs(p, 0)

HasSeg(p, t) == \E i \in DOMAIN p : p[i] = t

\* a filesystem path below the static root with nothing left to collapse
InsideRoot(f) ==
  /\ Len(f) >= Len(StaticRoot)
  /\ SubSeq(f, 1, Len(StaticRoot)) = StaticRoot
  /\ \A i \in DOMAIN f : f[i] \notin {"..", ".", ""}

\* a path the mux leaves as it is: no ".", no "..", no empty segment but the last
IsCleanPath(p) ==
  \A i \in DOMAIN p : p[i] \notin {".", ".."} /\ (p[i] = "" => i = Len(p))


\* ------------------------------------------------------------------ claims

\* C1: every response of the composed handler carries the three security
\* headers, for every method, path and combination of the CORS and logging
\* flags, preflight answers and 404/502 error responses included.
C1_SecurityHeadersOnEveryResponse ==
  Done => SecurityHeaderNames \subseteq Names

\* C2: a request whose path begins with /api and that no API or proxy route
\* claims is answered with status 404 and a JSON body holding an error field
\* (stated for the requests the mux hands to one of its handlers).
C2_UnclaimedApiPathGetsJSON404 ==
  (Done /\ target.kind = "handler" /\ BeginsWithApi(req.path) /\ ~ClaimedByAPI(req.path))
    => /\ resp.status = 404
       /\ resp.body.format = "json"
       /\ "error" \in resp.body.fields

\* C3: a request whose path begins with /api and that reaches the static
\* handler is never handed to the file server: nothing is opened and the
\* answer is "not found", whatever the static root holds under that name.
C3_ApiPathNeverReachesFileServer ==
  (Ran("staticHandler") /\ BeginsWithApi(req.path))
    => /\ opened = NoFile
       /\ resp.status = 404
       /\ resp.body.format = "text"

\* C3 witness: the static handler of an existing root answered a path that
\* begins with /api while a file of that name existed under the root.
C3_Witness ==
  /\ Done
  /\ Ran("staticHandler")
  /\ ~staticDirMissing
  /\ BeginsWithApi(req.path)
  /\ fsKind = "file"
  /\ resp.status = 404


C5_OpenedFileInsideRoot ==
  opened # NoFile => InsideRoot(opened)

\* C5 witness: the file server opened a location for a request whose path
\* climbs above the root.
C5_Witness ==
  /\ opened # NoFile
  /\ EscapesRoot(req.path)
  /\ HasSeg(req.path, "..")
  /\ fsKind = "file"
  /\ resp.status = 200


\* C6 as claimed: with CORS enabled every response carries the
\* Access-Control-Allow-* headers; with CORS disabled no response carries
\* Access-Control-Allow-Origin, proxied responses included.
C6_CORSHeadersIffEnabled ==
  Done => /\ config.EnableCORS => CORSHeaderNames \subseteq Names
          /\ ~config.EnableCORS => "Access-Control-Allow-Origin" \notin Names

\* C6 amended: with CORS enabled every response carries the
\* Access-Control-Allow-* headers; with CORS disabled a response carries
\* Access-Control-Allow-Origin only when it is a proxied response whose
\* upstream answer carried that header.
C6_CORSHeadersIffEnabledOrRelayed ==
  Done => /\ config.EnableCORS => CORSHeaderNames \subseteq Names
          /\ (~config.EnableCORS /\ "Access-Control-Allow-Origin" \in Names)
               => (Ran("handleTasksProxy") /\ upstream.ok /\ upstream.cors)

\* C6 witness: with CORS enabled, the 502 answer of a failed forward carries
\* the CORS headers.
C6_Witness ==
  /\ Done
  /\ config.EnableCORS
  /\ Ran("handleTasksProxy")
  /\ resp.status = 502
  /\ CORSHeaderNames \subseteq Names

\* C7: with CORS enabled an OPTIONS request is answered by the CORS layer
\* once the CORS headers are set; the mux, the API handlers, the static
\* handler and the proxy never run for it.
C7_PreflightShortCircuits ==
  (pc # "idle" /\ Preflight)
    => /\ ~Entered("Security") /\ ~Entered("mux")
       /\ \A i \in DOMAIN trace : trace[i][1] # "run"
       /\ target = NoTarget /\ attempts = 0 /\ opened = NoFile
       /\ Entered("CORS") => (resp.status = 200 /\ CORSHeaderNames \subseteq Names)
       /\ Done => (Entered("CORS") /\ writes = 1)

\* C7 witness: a preflight to a proxied path was answered with logging on.
C7_Witness ==
  /\ Done
  /\ Preflight
  /\ config.EnableRequestLogging
  /\ req.path = <<"api", "tasks">>
  /\ resp.status = 200
  /\ logged.status = 200


\* nesting order of the layers, outermost first
Rank(name) ==
  CASE name = "Logger" -> 1 [] name = "CORS" -> 2 [] name = "Security" -> 3
    [] name = "mux" -> 4

\* the enter and exit events of the trace, in order
LayerEvents == SelectSeq(trace, LAMBDA e : e[1] \in {"enter", "exit"})

\* the layers entered and not yet left after the events es, innermost last;
\* <<"bad">> when an exit does not match the innermost open layer
RECURSIVE OpenLayers(_, _)
OpenLayers(es, stack) ==
  IF es = <<>> THEN stack
  ELSE LET e == Head(es) IN
       IF e[1] = "enter" THEN OpenLayers(Tail(es), Append(stack, e[2]))
       ELSE IF stack # <<>> /\ stack[Len(stack)] = e[2]
            THEN OpenLayers(Tail(es), SubSeq(stack, 1, Len(stack) - 1))
            ELSE <<"bad">>

EnterOrder == SelectSeq(trace, LAMBDA e : e[1] = "enter")

\* C8: in every configuration the layers nest as Logger (if enabled) around
\* CORS (if enabled) around Security around the mux: a request enters them in
\* that order, they return in the reverse order, and once Security has set
\* its headers no layer takes them off the response.
C8_LayersNestInFixedOrder ==
  /\ \A i, j \in DOMAIN EnterOrder :
       i < j => Rank(EnterOrder[i][2]) < Rank(EnterOrder[j][2])
  /\ OpenLayers(LayerEvents, <<>>) # <<"bad">>
  /\ Done => OpenLayers(LayerEvents, <<>>) = <<>>
  /\ Entered("mux")
       => /\ Entered("Security")
          /\ config.EnableCORS <=> Entered("CORS")
          /\ config.EnableRequestLogging <=> Entered("Logger")
  /\ trace # <<>>
       => trace[1][2] = (IF config.EnableRequestLogging THEN "Logger"
                         ELSE IF config.EnableCORS THEN "CORS" ELSE "Security")
  /\ Entered("Security") => SecurityHeaderNames \subseteq Names

\* C8 witness: a request went through all three layers to a handler and the
\* response came back out through all of them.
C8_Witness ==
  /\ Done
  /\ config.EnableCORS /\ config.EnableRequestLogging
  /\ Ran("handleHello")
  /\ Len(LayerEvents) = 8
  /\ SecurityHeaderNames \subseteq Names

HandlerNames == {"handleHello", "handleStatus", "handleInfo", "handleTasksProxy", "staticHandler"}

\* how many times one of the API, proxy or static handlers ran
HandlerRuns ==
  Cardinality({i \in DOMAIN trace : trace[i][1] = "run" /\ trace[i][2] \in HandlerNames})

EachLayerOnce ==
  /\ \A i \in DOMAIN handler : Count(<<"enter", handler[i]>>) = 1
  /\ Count(<<"enter", "Security">>) = 1 /\ Count(<<"enter", "mux">>) = 1
  /\ config.EnableCORS => Count(<<"enter", "CORS">>) = 1
  /\ config.EnableRequestLogging => Count(<<"enter", "Logger">>) = 1

C10_ExactBeatsPrefix ==
  target.kind = "handler"
    => /\ req.path = <<"api", "hello">>  => target.name = "handleHello"
       /\ req.path = <<"api", "status">> => target.name = "handleStatus"
       /\ req.path = <<"api", "info">>   => target.name = "handleInfo"
       /\ req.path = <<"api", "tasks">>  => target.name = "handleTasksProxy"
       /\ UnderTasks(req.path)           => target.name = "handleTasksProxy"
       /\ target.name = "staticHandler"  => ~ClaimedByAPI(req.path)
       /\ target.name \in HandlerNames

\* C10 witness: the mux selected handleHello for /api/hello.
C10_Witness ==
  /\ pc = "handler"
  /\ req.path = <<"api", "hello">>
  /\ target.name = "handleHello"


\* C11: when the upstream connection fails for a forwarded request the caller
\* gets 502, exactly one upstream attempt was made for the request and the
\* static handler did not run for it.
C11_UpstreamFailureGives502 ==
  (Ran("handleTasksProxy") /\ ~upstream.ok)
    => /\ resp.status = 502
       /\ attempts = 1
       /\ ~Ran("staticHandler")
       /\ opened = NoFile
       /\ writes = 1

\* C11 witness: a request below /api/tasks/ met a failing upstream and the
\* 502 went back through the layers.
C11_Witness ==
  /\ Done
  /\ UnderTasks(req.path)
  /\ Ran("handleTasksProxy")
  /\ ~upstream.ok
  /\ attempts = 1
  /\ resp.status = 502


\* the upstream authority of spec 3 (ProxyTarget), written out
UpstreamAuthority == "localhost:8080"

\* C12: the Host of every forwarded request is the upstream authority
\* localhost:8080, not the Host the client sent.
C12_OutboundHostIsUpstream ==
  outbound.sent => outbound.host = UpstreamAuthority

\* C13: every forwarded request has the client address appended to
\* X-Forwarded-For and the inbound Host appended to X-Forwarded-Host.
C13_ForwardingHeadersAppended ==
  outbound.sent
    => /\ outbound.xff = req.xff \o <<ClientIP>>
       /\ outbound.xfh = req.xfh \o <<req.host>>

\* the request path is /api/tasks or lies below /api/tasks/
TasksPath(p) == p = <<"api", "tasks">> \/ UnderTasks(p)

\* the outbound request differs from the inbound one in its destination only
ForwardedUnchanged ==
  /\ outbound.sent
  /\ outbound.method = req.method
  /\ outbound.path = req.path
  /\ outbound.query = req.query
  /\ outbound.body = req.body
  /\ outbound.urlHost = UpstreamAuthority

\* the response is the upstream's answer
Relayed ==
  /\ resp.status = upstream.status
  /\ UpstreamHeaders(upstream) \subseteq resp.headers
  /\ resp.body.format = "upstream"

\* C14 as claimed: every request to /api/tasks or below /api/tasks/, whatever
\* its method, is forwarded with method, path, query and body unchanged and
\* only the destination authority rewritten, and the client gets the
\* upstream's status, headers and body (stated for the requests that reach
\* the mux).
C14_EveryTasksRequestForwarded ==
  (Done /\ Entered("mux") /\ TasksPath(req.path))
    => /\ ForwardedUnchanged
       /\ upstream.ok => Relayed

\* C14 amended: a request to /api/tasks or below /api/tasks/ that is not a
\* short-circuited preflight is forwarded exactly when its method is CONNECT
\* or its path is clean (otherwise the mux redirects it); every forwarded
\* request keeps method, path, query and body, only the destination
\* authority is rewritten, and when the upstream answers the client gets its
\* status, its headers and its body.
C14_ForwardedRequestUnchanged ==
  /\ outbound.sent
       => /\ ForwardedUnchanged
          /\ TasksPath(req.path)
          /\ upstream.ok => Relayed
  /\ (Done /\ ~Preflight /\ TasksPath(req.path))
       => (outbound.sent <=> (req.method = "CONNECT" \/ IsCleanPath(req.path)))

\* C14 witness: a POST with a query and a body below /api/tasks/ was
\* forwarded and the upstream's 404 came back.
C14_Witness ==
  /\ Done
  /\ req.method = "POST"
  /\ UnderTasks(req.path)
  /\ req.query # "" /\ req.body # ""
  /\ outbound.sent /\ outbound.body = req.body /\ outbound.query = req.query
  /\ upstream.ok /\ upstream.status = 404 /\ resp.status = 404


\* C15: when the static directory did not exist at construction, one warning
\* was printed then and none later, and every request routed to the static
\* handler is answered 404 without any filesystem access, also when the
\* directory has been created since.
C15_MissingRootFailsForever ==
  /\ warnings = (IF staticDirMissing THEN 1 ELSE 0)
  /\ (staticDirMissing /\ Ran("staticHandler"))
       => /\ resp.status = 404
          /\ resp.body.format = "text"
          /\ opened = NoFile

\* C15 witness: the root was missing at construction, exists by now, and a
\* request for "/" was still answered 404.
C15_Witness ==
  /\ Done
  /\ staticDirMissing
  /\ warnings = 1
  /\ req.path = <<"">>
  /\ fsKind = "dir"
  /\ Ran("staticHandler")
  /\ resp.status = 404


CacheControl == {x \in resp.headers : x[1] = "Cache-Control"}

\* C16: a successful static-file response carries Cache-Control:
\* max-age=<value> with <value> the configured cache_max_age string as it
\* stands, and no Cache-Control header when that string is empty.
C16_CacheControlFromConfig ==
  (Ran("staticHandler") /\ resp.status = 200)
    => IF config.CacheMaxAge = ""
       THEN CacheControl = {}
       ELSE CacheControl = {<<"Cache-Control", <<"max-age=", config.CacheMaxAge>> >>}

\* C16 witness: a file was served while cache_max_age was a string that is
\* not a number.
C16_Witness ==
  /\ Done
  /\ Ran("staticHandler")
  /\ fsKind = "file"
  /\ resp.status = 200
  /\ config.CacheMaxAge = "1h"
  /\ <<"Cache-Control", <<"max-age=", "1h">> >> \in resp.headers

\* C17: the Cache-Control header of the static layer is on static-asset
\* responses only: no response to a request whose path begins with /api,
\* the 404 for unclaimed /api paths included, carries it (the half of the
\* claim about /api paths; the 404 of a missing file is left to
\* http.FileServer, whose error path differs between Go releases).
C17_CacheControlOnAssetsOnly ==
  (Done /\ BeginsWithApi(req.path)) => CacheControl = {}


\* C18 as claimed: routing does not depend on the method: what the mux has
\* just selected for the request is what it selects for the same path with
\* any other method.
C18_RoutingIgnoresMethod ==
  pc = "handler"
    => \A m \in Methods : muxHandler(m, req.path) = target

\* C18 amended: for any two methods other than CONNECT the mux selects the
\* same handler for the same path; a CONNECT request, whose path the mux does
\* not clean, gets the same handler as the other methods when the path is
\* clean; and every request gets a registered handler or the redirect, none
\* is rejected for its method.
C18_RoutingIgnoresMethodButConnect ==
  pc = "handler"
    => /\ req.method # "CONNECT"
            => \A m \in Methods \ {"CONNECT"} : muxHandler(m, req.path) = target
       /\ IsCleanPath(req.path)
            => \A m \in Methods : muxHandler(m, req.path) = target
       /\ target.name \in HandlerNames \cup {"RedirectHandler"}

\* C18 witness: a POST to /api/hello was given the handler a GET gets.
C18_Witness ==
  /\ pc = "handler"
  /\ req.method = "POST"
  /\ req.path = <<"api", "hello">>
  /\ target.name = "handleHello"
  /\ muxHandler("GET", req.path) = target

\* ---------------------------------------------------------------- C19
\* a signal has been received by main
Signalled == mainPc \in {"signalled", "shutdown", "returned"}

\* C19 as claimed: once a signal has been received the process does not end
\* while a request is still in flight, unless the 30-second grace period has
\* expired.  Refuted: the goroutine's ListenAndServe returns ErrServerClosed
\* as soon as Shutdown closes the listener, and its log.Fatalf exits the
\* process at once, whatever is in flight.
C19_NoExitWhileRequestInFlight ==
  (Signalled /\ exit # "running") => (inflight = 0 \/ elapsed = GracePeriod)

\* ---------------------------------------------------------------- C20
\* what the claim calls a valid Config
ValidPort(c) == 1 <= c.Port /\ c.Port <= 65535
ValidLevel(c) == c.Level \in {"debug", "info", "warn", "error"}

\* C20: whenever New calls Validate, the result is nil if and only if the
\* port is in 1..65535, the static directory is non-empty and the log level
\* is one of debug, info, warn, error; otherwise it is an error; and the
\* Config is the same after the call as before.
C20_ValidateNilIffValid ==
  [][mainPc = "new"
       => /\ err' # "unset"
          /\ err' = "nil" <=> (ValidPort(config) /\ config.Directory # "" /\ ValidLevel(config))
          /\ config' = config]_vars

\* Validate has been called on a Config whose only fault is a port just above
\* the range, and returned an error
C20_Witness ==
  /\ mainPc = "panicked" /\ err = "invalid port number"
  /\ config.Port = 65536 /\ config.Directory # "" /\ ValidLevel(config)

\* ---------------------------------------------------------------- C21
\* the Config handed to New is one Validate rejects
InvalidConfig ==
  ~(ValidPort(config) /\ config.Directory # "" /\ ValidLevel(config))

\* C21: with an invalid configuration the process never listens: the
\* goroutine is never started, no socket is open, no request is in flight,
\* no handler chain is built, and once New has run the process has ended with
\* a panic.
C21_InvalidConfigNeverListens ==
  InvalidConfig
    => /\ ~listening /\ inflight = 0 /\ goPc = "none" /\ handler = <<>>
       /\ mainPc \in {"new", "panicked"}
       /\ mainPc = "panicked" => exit = "panic"

\* New has panicked on a Config whose only fault is port 0
C21_Witness ==
  /\ exit = "panic" /\ config.Port = 0 /\ config.Directory # "" /\ ValidLevel(config)
  /\ ~listening /\ err = "invalid port number"

\* ---------------------------------------------------------------- C22
\* Load has returned to main
Loaded == mainPc # "load"

\* every field of the Config has the file's value when the file sets it and
\* the built-in default otherwise
FileOverDefaults ==
  LET given(k) == file.kind = "yaml" /\ k \in file.sets
      is(k, d) == config[k] = IF given(k) THEN file.values[k] ELSE d
  IN /\ is("Host", "localhost") /\ is("Port", 8080)
     /\ is("ReadTimeout", 30) /\ is("WriteTimeout", 30) /\ is("IdleTimeout", 120)
     /\ is("Directory", "./public") /\ is("CacheMaxAge", "3600")
     /\ is("Level", "info") /\ is("EnableRequestLogging", TRUE)
     /\ is("EnableCORS", TRUE) /\ is("EnableCompression", FALSE)

\* C22 as claimed: Load returns without error, and the Config has the file's
\* values over the defaults.  Refuted by a file that exists but cannot be
\* read or parsed: Load returns an error and no Config.
C22_LoadNeverFails ==
  Loaded => loadErr = "nil" /\ FileOverDefaults

\* C22 amended: when the file does not exist, or is YAML that decodes into
\* Config, Load returns without error and every field has the file's value
\* if the file sets it and the default otherwise (all defaults when the file
\* does not exist); when the file exists but cannot be read or parsed, Load
\* returns an error and main ends the process.
C22_LoadFileOverDefaults ==
  Loaded => /\ file.kind \in {"absent", "yaml"} => loadErr = "nil" /\ FileOverDefaults
            /\ file.kind = "absent" => \A k \in Fields : config[k] = Load(NoFileAtPath).cfg[k]
            /\ file.kind \in {"unreadable", "malformed"}
                 => loadErr # "nil" /\ exit = "fatal" /\ config = ZeroConfig

\* Load has read a file that sets only the port and the CORS switch, both to
\* their zero values
C22_Witness ==
  /\ Loaded /\ file.kind = "yaml" /\ file.sets = {"Port", "EnableCORS"}
  /\ config.Port = 0 /\ ~config.EnableCORS /\ config.Host = "localhost"
  /\ config.EnableRequestLogging

\* ---------------------------------------------------------------- C23
\* C23: whatever the request's method, once the /api/hello handler has run
\* the response has status 200, Content-Type application/json and a JSON
\* object whose message is "Hello from FeatherJet!", whose method is the
\* request's method and whose path is the request's path.
C23_HelloEchoesMethodAndPath ==
  Ran("handleHello")
    => /\ resp.status = 200
       /\ <<"Content-Type", <<"application/json">> >> \in resp.headers
       /\ resp.body.format = "json"
       /\ {"message", "method", "path"} \subseteq resp.body.fields
       /\ resp.body.values.message = "Hello from FeatherJet!"
       /\ resp.body.values.method = req.method
       /\ resp.body.values.path = req.path

\* a POST to /api/hello has been answered by the handler
C23_Witness ==
  /\ Done /\ Ran("handleHello") /\ req.method = "POST"
  /\ resp.body.values.method = "POST" /\ resp.body.values.path = <<"api", "hello">>

\* ---------------------------------------------------------------- C24
\* the Cache-Control header the static handler sets for a Config
CacheControlOf(c) ==
  IF c.CacheMaxAge # "" THEN {<<"Cache-Control", <<"max-age=", c.CacheMaxAge>> >>} ELSE {}

\* C24 as claimed: changing the Config after New has returned has no effect:
\* the middleware chain is the one built from the Config New saw, and a
\* file served by the static handler carries the Cache-Control of the Config
\* New saw.  Refuted: the static handler reads s.config.Static.CacheMaxAge on
\* every request.
C24_ConfigNeverReRead ==
  /\ handler = setupMiddleware(constructedWith)
  /\ (Ran("staticHandler") /\ ~staticDirMissing /\ resp.status = 200)
       => CacheControl = CacheControlOf(constructedWith)

\* ---------------------------------------------------------------- C25
\* C25 as claimed: the proxy target is resolved at construction, so when the
\* mux hands a request to the proxy handler the target is already there.
\* Refuted: New resolves nothing; handleTasksProxy parses the target itself,
\* on every request.
C25_TargetResolvedAtConstruction ==
  /\ Selected("handleTasksProxy") => proxyURL = ProxyTarget
  /\ outbound.sent => outbound.urlHost = ProxyTarget

\* C25 amended: the proxy target is one non-empty authority fixed in the
\* code; it is resolved by the proxy handler on each request it serves, not
\* at construction; and every forwarded request, whatever its content and
\* whatever the configuration, goes to that authority.
C25_TargetFixedResolvedPerRequest ==
  /\ ProxyTarget # ""
  /\ proxyURL \in {"", ProxyTarget}
  /\ proxyURL = ProxyTarget <=> Ran("handleTasksProxy")
  /\ outbound.sent <=> Ran("handleTasksProxy")
  /\ outbound.sent => outbound.urlHost = ProxyTarget

\* a request sent with another Host, a query and a body, under a Config with
\* CORS off and its own cache age, was forwarded to the fixed authority
C25_Witness ==
  /\ Done /\ outbound.sent /\ req.host = "example.com" /\ req.body # ""
  /\ ~config.EnableCORS /\ config.CacheMaxAge = "1h"
  /\ outbound.urlHost = ProxyTarget /\ outbound.host = "example.com"

\* ---------------------------------------------------------------- C26
\* C26 as claimed: under a Config that passes Validate, the defaults
\* included, a request to /api/tasks is forwarded at most once, because the
\* proxy never forwards to the server's own listening address.  Refuted:
\* with the default host and port the server listens where the proxy target
\* points, so the forwarded request comes back to the same handler and is
\* forwarded again.
C26_ForwardedAtMostOnce ==
  Validate(config) = "nil" => attempts <= 1

ClientError(o) == ~o.ok /\ o.status >= 400 /\ o.status <= 499

\* C28 as claimed: retryRequest invokes requestFn at most maxRetries+1
\* times; it returns the result of the first successful invocation; no
\* invocation follows one that failed with a 4xx response; the wait before
\* each further attempt is baseDelay*2^attempt; and when it throws, it throws
\* the error of the last attempt.  Refuted: a 4xx response whose body has an
\* error text gives an Error without "HTTP 4" in its message, and is retried.
C28_RetryStopsOnClientError ==
  LET n == Len(outcomes) IN
  /\ n <= maxRetries + 1
  /\ rpc = "returned"
       => /\ n > 0 /\ outcomes[n].ok /\ result = outcomes[n].value
          /\ \A i \in 1..(n - 1) : ~outcomes[i].ok
  /\ \A i \in 1..n : ClientError(outcomes[i]) => i = n
  /\ \A i \in DOMAIN delays : delays[i] = baseDelay * Pow2(i - 1)
  /\ rpc = "thrown" => n > 0 /\ lastError = outcomes[n].value

\* ---------------------------------------------------------------- C29
\* how many entries of a queue hold the operation the user started n-th
Copies(q, n) == Cardinality({i \in DOMAIN q : q[i].data = n})

\* C29 as claimed: no operation is ever duplicated: the retry queue holds
\* each operation the user started at most once.  Refuted: an operation that
\* processRetryQueue replays while the client is offline again is queued by
\* the operation's own catch and once more by processRetryQueue's catch.
C29_QueuedAtMostOnce ==
  \A n \in 1..issued : Copies(retryQueue, n) <= 1

\* ---------------------------------------------------------------- C30
\* C30 as claimed: after any sequence of successful createTask, updateTask
\* and deleteTask calls, stats equals calculateLocalStats(tasks).  Refuted:
\* createTask counts every new task as pending, whatever status the server
\* returned it with.
C30_StatsMatchTasks ==
  stats = calculateLocalStats(tasks)

====
